---- MODULE Spec2Model ----
(***************************************************************************)
(* Flipkart product recommender: the Flask front end (src/app.py), the     *)
(* history-aware RAG chain and its per-session history store               *)
(* (src/flipkart/rag_chain.py), start-up configuration                     *)
(* (src/flipkart/config.py, src/flipkart/data_loader/data_ingestion.py)    *)
(* and the CSV-to-document converter                                       *)
(* (src/flipkart/data_loader/data_converter.py).                           *)
(*                                                                         *)
(* Strings typed by the user are kept run-length encoded: a sequence of    *)
(* runs [ch, n], adjacent runs holding different characters, so that the   *)
(* 1000-character limit of /chat keeps its real value.                     *)
(***************************************************************************)
EXTENDS Integers, Sequences, FiniteSets, TLC

VARIABLES
    env,               \* os.environ as read by Config's class attributes
    boot,              \* position of create_app()
    built,             \* components constructed so far during start-up
    startupError,      \* the exception create_app() raised, if any
    issued,            \* session ids delivered to clients in session cookies
    history_store,     \* RAGChainBuilder.history_store: session id -> history object
    heap,              \* the ChatMessageHistory objects: object id -> messages
    req,               \* per worker thread: the request it handles and where it is
    owner,             \* request id -> session id of the request
    completed,         \* responses sent so far, in the order they were sent
    REQUEST_COUNT,     \* request_count_total of POST /chat and 404, by status label
    CHAT_ERROR_COUNT,  \* chat_errors_total, by error_type label
    source,            \* the CSV file DataConverter reads
    runs               \* conversions done so far: the source read and the outcome

vars == <<env, boot, built, startupError, issued, history_store, heap, req,
          owner, completed, REQUEST_COUNT, CHAT_ERROR_COUNT, source, runs>>

----------------------------------------------------------------------------
(* Bounds of the model *)

MaxRequests == 3
MaxSeqRequests == 2
MaxRuns == 3
MaxRows == 2
MaxConversions == 2

MaxSessions == 2

Threads == {"t1", "t2"}
SessionIds == 1..MaxSessions
Chars == {" ", "a"}

(* Program constants *)

MaxInputLen == 1000
TopK == 3

None == "<None>"

----------------------------------------------------------------------------
(* Start-up: Config, DataIngestor.__init__, create_app *)

RequiredVars ==
    <<"GROQ_API_KEY", "ASTRA_DB_APPLICATION_TOKEN", "ASTRA_DB_KEYSPACE",
      "ASTRA_DB_API_ENDPOINT">>

RequiredSet == {RequiredVars[i] : i \in DOMAIN RequiredVars}

EnvValues == {None, "", "value"}

Falsy(v) == v = None \/ v = ""

MissingFirstOnly(cfg) ==
    LET all == SelectSeq(RequiredVars, LAMBDA v : Falsy(cfg[v]))
    IN  IF all = <<>> THEN <<>> ELSE <<Head(all)>>

Missing(cfg) == SelectSeq(RequiredVars, LAMBDA v : Falsy(cfg[v]))

NoError == [type |-> "none", missing |-> <<>>]

ConfigValidate ==
    /\ boot = "new"
    /\ IF Missing(env) # <<>>
       THEN /\ boot' = "failed"
            /\ startupError' = [type |-> "ValueError", missing |-> Missing(env)]
       ELSE /\ boot' = "validated"
            /\ startupError' = startupError
    /\ UNCHANGED <<env, built, issued, history_store, heap, req, owner,
                   completed, REQUEST_COUNT, CHAT_ERROR_COUNT, source, runs>>

Construct(from, what, to, ok) ==
    /\ boot = from
    /\ IF ok
       THEN /\ boot' = to
            /\ built' = built \cup {what}
            /\ startupError' = startupError
       ELSE /\ boot' = "failed"
            /\ built' = built
            /\ startupError' = [type |-> "Exception", missing |-> <<>>]
    /\ UNCHANGED <<env, issued, history_store, heap, req, owner,
                   completed, REQUEST_COUNT, CHAT_ERROR_COUNT, source, runs>>

ConstructEmbedding(ok) == Construct("validated", "embedding_model", "embedded", ok)

ConstructVectorStore(ok) == Construct("embedded", "vstore", "ingestor", ok)

BuildRagChain(ok) == Construct("ingestor", "rag_chain", "serving", ok)

----------------------------------------------------------------------------
(* Strings of the form field msg *)

IsSpace(c) == c = " "

RunLens(c) == IF IsSpace(c) THEN {1, MaxInputLen + 1}
              ELSE {1, MaxInputLen, MaxInputLen + 1}

RunSet == UNION {[ch : {c}, n : RunLens(c)] : c \in Chars}

Normal(s) == \A i \in 1..(Len(s) - 1) : s[i].ch # s[i + 1].ch

Strings == {s \in UNION {[1..k -> RunSet] : k \in 0..MaxRuns} : Normal(s)}

RECURSIVE StrLen(_)
StrLen(s) == IF s = <<>> THEN 0 ELSE Head(s).n + StrLen(Tail(s))

RECURSIVE LStrip(_)
LStrip(s) == IF s = <<>> THEN s
             ELSE IF IsSpace(Head(s).ch) THEN LStrip(Tail(s)) ELSE s

RECURSIVE RStrip(_)
RStrip(s) == IF s = <<>> THEN s
             ELSE IF IsSpace(s[Len(s)].ch) THEN RStrip(SubSeq(s, 1, Len(s) - 1))
             ELSE s

StripNothing(s) == s

(* str.strip(): leading and trailing whitespace removed. *)
Strip(s) == RStrip(LStrip(s))

Forms == {[has |-> FALSE, msg |-> <<>>]} \cup [has : {TRUE}, msg : Strings]

NoForm == [has |-> FALSE, msg |-> <<>>]

Lit(text) == <<[ch |-> text, n |-> 1]>>

Q1 == <<[ch |-> "a", n |-> 1]>>

(* The forms posted while several requests are in flight. *)
CoreForms ==
    {NoForm,
     [has |-> TRUE, msg |-> <<[ch |-> " ", n |-> 1]>> \o Q1]}

----------------------------------------------------------------------------
(* The external providers: what the LLM and the vector store may answer *)

Rewrites == {Lit("rewritten question")}
Answers == {Lit("answer"), Lit("")}
Corpus == <<"doc1", "doc2", "doc3", "doc4">>
SearchResults == {<<>>, SubSeq(Corpus, 1, TopK)}
ExcTypes == {"KeyError", "Exception"}
ExcDetail == "provider detail"
Exceptions == [type : ExcTypes, detail : {ExcDetail}]
NoExc == [type |-> "none", detail |-> ""]

Fallback == Lit("I'm sorry, I couldn't generate a response.")

----------------------------------------------------------------------------
(* HTTP responses of src/app.py *)

NoResp == [code |-> 0, body |-> [status |-> "none"], error_type |-> ""]

MissingMsg == "Missing required field: msg"
EmptyMsg == "Input cannot be empty"
TooLongMsg == "Input too long. Maximum 1000 characters allowed."
KeyErrorMsg == "Error processing request: missing data"
InternalMsg == "An internal error occurred. Please try again later."
NotFoundMsg == "Endpoint not found"

ErrorRespBare(code, msg, etype) ==
    [code |-> code, body |-> [error |-> msg], error_type |-> etype]

ErrorResp(code, msg, etype) ==
    [code |-> code, body |-> [error |-> msg, status |-> "error"], error_type |-> etype]

SuccessResp(answer) ==
    [code |-> 200, body |-> [answer |-> answer, status |-> "success"],
     error_type |-> ""]

Inc(counter, label) == [counter EXCEPT ![label] = @ + 1]

----------------------------------------------------------------------------
(* Worker threads *)

IdleReq ==
    [pc |-> "idle", rid |-> 0, path |-> "", form |-> NoForm, sid |-> 0,
     user_input |-> <<>>, absent |-> FALSE, hist |-> 0, chat_history |-> <<>>,
     query |-> <<>>, context |-> <<>>, result |-> [input |-> <<>>],
     exc |-> NoExc, resp |-> NoResp, wrote |-> FALSE]

Turn(role, content, rid) == [role |-> role, content |-> content, rid |-> rid]

Done(r, q, resp) ==
    [rid |-> r.rid, sid |-> r.sid, code |-> resp.code, q |-> q,
     answer |-> IF resp.code = 200 THEN resp.body.answer ELSE <<>>]

(* The turns of a session's history, as a later _get_history would find them. *)
TurnsIn(store, objects, sid) ==
    IF store[sid] = 0 THEN <<>> ELSE objects[store[sid]]

TurnsOf(sid) == TurnsIn(history_store, heap, sid)

(* wrote: whether a step of the request has changed the turns of a session. *)
Wrote(r, store, objects) ==
    r.wrote \/ \E s \in SessionIds : TurnsIn(store, objects, s) # TurnsOf(s)

(* before_request: the session cookie's id, or a newly minted one. *)
FreshSid == Cardinality({owner[i] : i \in DOMAIN owner}) + 1

SessionOf(cookie) == IF cookie = 0 THEN FreshSid ELSE cookie

Receive(t, cookie, path, form) ==
    /\ boot = "serving"
    /\ req[t].pc \in {"idle", "done"}
    /\ cookie \in issued \cup {0}
    /\ cookie = 0 => FreshSid \in SessionIds
    /\ path # "/chat" => form = NoForm
    /\ owner' = Append(owner, SessionOf(cookie))
    /\ req' = [req EXCEPT ![t] =
                  [IdleReq EXCEPT !.pc = "dispatch", !.rid = Len(owner) + 1,
                                  !.path = path, !.form = form,
                                  !.sid = SessionOf(cookie)]]
    /\ UNCHANGED <<env, boot, built, startupError, issued, history_store, heap,
                   completed, REQUEST_COUNT, CHAT_ERROR_COUNT, source, runs>>

(* The response leaves, carrying the session cookie. *)
Finish(t, r, resp) ==
    /\ issued' = issued \cup {r.sid}
    /\ req' = [req EXCEPT ![t] =
                  [r EXCEPT !.pc = "done", !.resp = resp, !.absent = FALSE,
                            !.hist = 0, !.chat_history = <<>>, !.query = <<>>,
                            !.user_input = <<>>,
                            !.result = [input |-> <<>>]]]
    /\ completed' = Append(completed, Done(r, r.user_input, resp))

not_found(t) ==
    /\ req[t].pc = "dispatch"
    /\ req[t].path # "/chat"
    /\ REQUEST_COUNT' = Inc(REQUEST_COUNT, "404")
    /\ Finish(t, req[t], ErrorResp(404, NotFoundMsg, ""))
    /\ UNCHANGED <<env, boot, built, startupError, history_store, heap,
                   owner, CHAT_ERROR_COUNT, source, runs>>

TooLongOffByOne(s) == StrLen(s) >= MaxInputLen

TooLong(s) == StrLen(s) > MaxInputLen

(* chat, lines 109-152: the request counter, then the validation of msg. *)
ChatValidate(t) ==
    /\ req[t].pc = "dispatch"
    /\ req[t].path = "/chat"
    /\ LET r == req[t]
           user_input == Strip(r.form.msg)
           reject(msg, etype) ==
               /\ REQUEST_COUNT' = Inc(Inc(REQUEST_COUNT, "200"), "400")
               /\ CHAT_ERROR_COUNT' = Inc(CHAT_ERROR_COUNT, etype)
               /\ Finish(t, r, ErrorResp(400, msg, etype))
       IN  IF ~r.form.has THEN reject(MissingMsg, "missing_input")
           ELSE IF user_input = <<>> THEN reject(EmptyMsg, "empty_input")
           ELSE IF TooLong(user_input) THEN reject(TooLongMsg, "input_too_long")
           ELSE /\ REQUEST_COUNT' = Inc(REQUEST_COUNT, "200")
                /\ CHAT_ERROR_COUNT' = CHAT_ERROR_COUNT
                /\ req' = [req EXCEPT ![t] =
                              [r EXCEPT !.pc = "get_history",
                                        !.user_input = user_input]]
                /\ completed' = completed
                /\ issued' = issued
    /\ UNCHANGED <<env, boot, built, startupError, history_store, heap,
                   owner, source, runs>>

(* RAGChainBuilder._get_history, line 72: the membership test. *)
GetHistoryCheck(t) ==
    /\ req[t].pc = "get_history"
    /\ req' = [req EXCEPT ![t].absent = (history_store[req[t].sid] = 0),
                          ![t].pc = IF history_store[req[t].sid] = 0
                                    THEN "store_history" ELSE "return_history"]
    /\ UNCHANGED <<env, boot, built, startupError, issued, history_store, heap,
                   owner, completed, REQUEST_COUNT, CHAT_ERROR_COUNT, source, runs>>

(* line 73: a new ChatMessageHistory is stored under the session id. *)
GetHistoryStore(t) ==
    /\ req[t].pc = "store_history"
    /\ heap' = Append(heap, <<>>)
    /\ history_store' = [history_store EXCEPT ![req[t].sid] = Len(heap) + 1]
    /\ req' = [req EXCEPT ![t].pc = "return_history",
                          ![t].wrote = Wrote(req[t], history_store', heap')]
    /\ UNCHANGED <<env, boot, built, startupError, issued, owner, completed,
                   REQUEST_COUNT, CHAT_ERROR_COUNT, source, runs>>

(* line 74: the stored history is returned; RunnableWithMessageHistory *)
(* hands its messages to the chain as chat_history.                    *)
GetHistoryReturn(t) ==
    /\ req[t].pc = "return_history"
    /\ req' = [req EXCEPT ![t].hist = history_store[req[t].sid],
                          ![t].chat_history = heap[history_store[req[t].sid]],
                          ![t].pc = "rewrite"]
    /\ UNCHANGED <<env, boot, built, startupError, issued, history_store, heap,
                   owner, completed, REQUEST_COUNT, CHAT_ERROR_COUNT, source, runs>>

(* What a provider call may do: return a value or raise. *)
Ok(v) == [ok |-> TRUE, val |-> v, exc |-> NoExc]

Failed(e) == [ok |-> FALSE, val |-> <<>>, exc |-> e]

Outcomes(vals, excs) == {Ok(v) : v \in vals} \cup {Failed(e) : e \in excs}

LeakDetail(exc) ==
    ErrorResp(500, exc.detail, IF exc.type = "KeyError" THEN "key_error" ELSE "unknown")

(* chat, lines 168-185: the two except clauses. *)
ExceptionResp(exc) ==
    IF exc.type = "KeyError"
    THEN ErrorResp(500, KeyErrorMsg, "key_error")
    ELSE ErrorResp(500, InternalMsg, "unknown")

HandleException(t, exc) ==
    /\ REQUEST_COUNT' = Inc(REQUEST_COUNT, "500")
    /\ CHAT_ERROR_COUNT' = Inc(CHAT_ERROR_COUNT, ExceptionResp(exc).error_type)
    /\ Finish(t, [req[t] EXCEPT !.exc = exc], ExceptionResp(exc))

(* The history-aware retriever: with an empty chat history the input is the *)
(* query as it stands, otherwise the LLM rewrites it.                       *)
Rewrite(t, out) ==
    /\ req[t].pc = "rewrite"
    /\ IF req[t].chat_history = <<>>
       THEN /\ req' = [req EXCEPT ![t].query = req[t].user_input,
                                  ![t].pc = "retrieve"]
            /\ UNCHANGED <<issued, completed, REQUEST_COUNT, CHAT_ERROR_COUNT>>
       ELSE IF out.ok
       THEN /\ req' = [req EXCEPT ![t].query = out.val, ![t].pc = "retrieve"]
            /\ UNCHANGED <<issued, completed, REQUEST_COUNT, CHAT_ERROR_COUNT>>
       ELSE HandleException(t, out.exc)
    /\ UNCHANGED <<env, boot, built, startupError, history_store, heap,
                   owner, source, runs>>

(* The retriever: the k = 3 nearest documents, possibly none. *)
Retrieve(t, out) ==
    /\ req[t].pc = "retrieve"
    /\ IF out.ok
       THEN /\ req' = [req EXCEPT ![t].context = out.val, ![t].pc = "generate"]
            /\ UNCHANGED <<issued, completed, REQUEST_COUNT, CHAT_ERROR_COUNT>>
       ELSE HandleException(t, out.exc)
    /\ UNCHANGED <<env, boot, built, startupError, history_store, heap,
                   owner, source, runs>>

(* The stuff-documents chain: the LLM's answer becomes result["answer"]. *)
Generate(t, out) ==
    /\ req[t].pc = "generate"
    /\ IF out.ok
       THEN /\ req' = [req EXCEPT ![t].result =
                          [input |-> req[t].user_input, answer |-> out.val],
                                  ![t].pc = "append_user"]
            /\ UNCHANGED <<issued, completed, REQUEST_COUNT, CHAT_ERROR_COUNT>>
       ELSE HandleException(t, out.exc)
    /\ UNCHANGED <<env, boot, built, startupError, history_store, heap,
                   owner, source, runs>>

AppendToAll(h, hist, turn) == [k \in DOMAIN h |-> Append(h[k], turn)]

AppendTo(h, hist, turn) == [h EXCEPT ![hist] = Append(@, turn)]

(* RunnableWithMessageHistory on the chain's end: add_messages appends the *)
(* human message, then the AI message, to the history handed out.          *)
AppendUser(t) ==
    /\ req[t].pc = "append_user"
    /\ heap' = AppendTo(heap, req[t].hist,
                        Turn("human", req[t].result.input, req[t].rid))
    /\ req' = [req EXCEPT ![t].pc = "append_ai",
                          ![t].wrote = Wrote(req[t], history_store, heap')]
    /\ UNCHANGED <<env, boot, built, startupError, issued, history_store, owner,
                   completed, REQUEST_COUNT, CHAT_ERROR_COUNT, source, runs>>

AppendAssistant(t) ==
    /\ req[t].pc = "append_ai"
    /\ heap' = AppendTo(heap, req[t].hist,
                        Turn("ai", req[t].result.answer, req[t].rid))
    /\ req' = [req EXCEPT ![t].pc = "respond",
                          ![t].wrote = Wrote(req[t], history_store, heap')]
    /\ UNCHANGED <<env, boot, built, startupError, issued, history_store, owner,
                   completed, REQUEST_COUNT, CHAT_ERROR_COUNT, source, runs>>

(* chat, line 162: result.get("answer", <fallback>). *)
ExtractAnswer(result) ==
    IF "answer" \in DOMAIN result THEN result.answer ELSE Fallback

(* chat, lines 162-166. *)
Respond(t) ==
    /\ req[t].pc = "respond"
    /\ Finish(t, req[t], SuccessResp(ExtractAnswer(req[t].result)))
    /\ UNCHANGED <<env, boot, built, startupError, history_store, heap,
                   owner, REQUEST_COUNT, CHAT_ERROR_COUNT, source, runs>>

----------------------------------------------------------------------------
(* DataConverter: the CSV file as pandas reads it, and its documents *)

RequiredColumns == <<"product_title", "review">>

AllColumns == {"product_title", "review", "rating"}

NaN == [kind |-> "nan", s |-> "", i |-> 0]

StrCell(x) == [kind |-> "str", s |-> x, i |-> 0]

IntCell(k) == [kind |-> "int", s |-> "", i |-> k]

CellsOf(c) ==
    IF c = "product_title" THEN {NaN, StrCell("Phone A")}
    ELSE IF c = "review" THEN {NaN, StrCell("Great battery"), IntCell(5)}
    ELSE {IntCell(4)}

RowSet(cs) ==
    {f \in [cs -> UNION {CellsOf(c) : c \in cs}] : \A c \in cs : f[c] \in CellsOf(c)}

RowSeqs(cs) == UNION {[1..k -> RowSet(cs)] : k \in 0..MaxRows}

Unreadable == [readable |-> FALSE, columns |-> {}, rows |-> <<>>]

Tables ==
    UNION {{[readable |-> TRUE, columns |-> cs, rows |-> rs] : rs \in RowSeqs(cs)} :
              cs \in SUBSET AllColumns}

Sources == Tables \cup {Unreadable}

(* pd.notna and str() of a cell. *)
NotNa(cell) == cell.kind # "nan"

PyStr(cell) ==
    IF cell.kind = "str" THEN cell.s
    ELSE IF cell.kind = "int" THEN ToString(cell.i)
    ELSE "nan"

Document(text, name) == [page_content |-> text, metadata |-> [product_name |-> name]]

Raised(error, missing) ==
    [ok |-> FALSE, error |-> error, missing |-> missing, docs |-> <<>>]

Returned(docs) == [ok |-> TRUE, error |-> "", missing |-> <<>>, docs |-> docs]

ReadError == "read_csv error"
MissingColumnsError == "Missing required columns"
EmptyError == "CSV file is empty"

(* df.empty: some axis has length 0. *)
DfEmpty(df) == df.columns = {} \/ df.rows = <<>>

RowDocumentNoDefaults(row) ==
    Document(PyStr(row["review"]), PyStr(row["product_title"]))

RowDocument(row) ==
    Document(IF NotNa(row["review"]) THEN PyStr(row["review"]) ELSE "",
             IF NotNa(row["product_title"]) THEN PyStr(row["product_title"])
             ELSE "Unknown")

(* DataConverter.convert_to_documents, lines 30-70. *)
ConvertToDocuments(src) ==
    IF ~src.readable THEN Raised(ReadError, <<>>)
    ELSE LET missing_columns ==
                 SelectSeq(RequiredColumns, LAMBDA col : col \notin src.columns)
         IN  IF missing_columns # <<>>
             THEN Raised(MissingColumnsError, missing_columns)
             ELSE IF DfEmpty(src) THEN Raised(EmptyError, <<>>)
             ELSE Returned([k \in 1..Len(src.rows) |-> RowDocument(src.rows[k])])

convert_to_documents ==
    /\ Len(runs) < MaxConversions
    /\ runs' = Append(runs, [src |-> source, out |-> ConvertToDocuments(source)])
    /\ UNCHANGED <<source, env, boot, built, startupError, issued, history_store,
                   heap, req, owner, completed, REQUEST_COUNT, CHAT_ERROR_COUNT>>

(* The file is changed between two conversions. *)
Edits(src) ==
    {Unreadable,
     [src EXCEPT !.rows = IF @ = <<>> THEN @ ELSE SubSeq(@, 1, Len(@) - 1)],
     [src EXCEPT !.columns = @ \ {"review"},
                 !.rows = [k \in 1..Len(@) |->
                              [c \in src.columns \ {"review"} |-> @[k][c]]]]}
        \ {src}

EditSource(new) ==
    /\ runs # <<>>
    /\ source = runs[Len(runs)].src
    /\ Len(runs) < MaxConversions
    /\ new \in Edits(source)
    /\ source' = new
    /\ UNCHANGED <<runs, env, boot, built, startupError, issued, history_store,
                   heap, req, owner, completed, REQUEST_COUNT, CHAT_ERROR_COUNT>>

----------------------------------------------------------------------------
(* The served application *)

AppStart(e) ==
    /\ env = e
    /\ boot = "new"
    /\ built = {}
    /\ startupError = NoError
    /\ issued = {}
    /\ history_store = [s \in SessionIds |-> 0]
    /\ heap = <<>>
    /\ req = [t \in Threads |-> IdleReq]
    /\ owner = <<>>
    /\ completed = <<>>
    /\ REQUEST_COUNT = [l \in {"200", "400", "404", "500"} |-> 0]
    /\ CHAT_ERROR_COUNT =
           [l \in {"missing_input", "empty_input", "input_too_long",
                   "key_error", "unknown"} |-> 0]

Init ==
    /\ \E e \in [RequiredSet -> EnvValues] : AppStart(e)
    /\ source = Unreadable
    /\ runs = <<>>

Paths == {"/chat", "/nope"}

Startup ==
    \/ ConfigValidate
    \/ \E ok \in BOOLEAN : ConstructEmbedding(ok)
    \/ \E ok \in BOOLEAN : ConstructVectorStore(ok)
    \/ \E ok \in BOOLEAN : BuildRagChain(ok)

Step(t, excs, docs, answers) ==
    \/ ChatValidate(t)
    \/ GetHistoryCheck(t)
    \/ GetHistoryStore(t)
    \/ GetHistoryReturn(t)
    \/ \E out \in Outcomes(Rewrites, excs) : Rewrite(t, out)
    \/ \E out \in Outcomes(docs, excs) : Retrieve(t, out)
    \/ \E out \in Outcomes(answers, excs) : Generate(t, out)
    \/ AppendUser(t)
    \/ AppendAssistant(t)
    \/ Respond(t)

AnException == [type |-> "Exception", detail |-> ExcDetail]

(* The threaded server of app.run: requests of Threads overlap freely. *)
Next ==
    \/ Startup
    \/ /\ Len(owner) < MaxRequests
       /\ \E t \in Threads, cookie \in SessionIds \cup {0}, form \in CoreForms :
             Receive(t, cookie, "/chat", form)
    \/ \E t \in Threads :
          Step(t, {AnException}, {SubSeq(Corpus, 1, TopK)}, {Lit("answer")})

Spec == Init /\ [][Next]_vars

(* One worker serving one request after the other: every form of msg up *)
(* to MaxRuns runs, every path, every provider outcome.                 *)
Worker == "t1"

NextSeq ==
    \/ Startup
    \/ /\ Len(owner) < MaxSeqRequests
       /\ \E cookie \in SessionIds \cup {0}, path \in Paths, form \in Forms :
             Receive(Worker, cookie, path, form)
    \/ not_found(Worker)
    \/ Step(Worker, Exceptions, SearchResults, Answers)

SpecSeq == Init /\ [][NextSeq]_vars

(* The ingestion run: the converter alone. *)
InitConv ==
    /\ AppStart([v \in RequiredSet |-> "value"])
    /\ source \in Sources
    /\ runs = <<>>

NextConv ==
    \/ convert_to_documents
    \/ \E new \in Sources : EditSource(new)

SpecConv == InitConv /\ [][NextConv]_vars

----------------------------------------------------------------------------
(* Properties *)

Elems(seq) == {seq[k] : k \in DOMAIN seq}

(* C8: start-up fails fast. When a required credential is missing, the    *)
(* validation raises one ValueError that lists every missing credential,  *)
(* nothing (embedding model, vector store, chain) has been constructed    *)
(* by then, and the application never reaches the serving state.          *)
C8_StartupFailsFast ==
    (\E v \in RequiredSet : env[v] \in {None, ""}) =>
        /\ boot \in {"new", "failed"}
        /\ built = {}
        /\ owner = <<>>
        /\ boot = "failed" =>
              /\ startupError.type = "ValueError"
              /\ \A v \in RequiredSet :
                    v \in Elems(startupError.missing) <=> env[v] \in {None, ""}
              /\ Len(startupError.missing) = Cardinality(Elems(startupError.missing))

C8_Witness ==
    /\ boot = "failed"
    /\ env["GROQ_API_KEY"] = None
    /\ env["ASTRA_DB_KEYSPACE"] = None
    /\ env["ASTRA_DB_API_ENDPOINT"] = "value"
    /\ Len(startupError.missing) >= 2

(* C9: the converter's contract. A table without product_title or review *)
(* fails with the missing-columns error naming exactly the absent         *)
(* columns, also with zero rows; with both columns and zero rows it fails *)
(* with the empty-input error; otherwise there is one document per row,   *)
(* in row order, the text being the review ("" when null) and             *)
(* product_name the title ("Unknown" when null). Two conversions of the   *)
(* same unchanged source give the same outcome.                           *)
CellText(cell, default) ==
    IF cell.kind = "nan" THEN default
    ELSE IF cell.kind = "str" THEN cell.s ELSE ToString(cell.i)

C9_ConverterContract ==
    /\ \A k \in DOMAIN runs :
          LET src == runs[k].src
              out == runs[k].out
              absent == {c \in Elems(RequiredColumns) : c \notin src.columns}
          IN  src.readable =>
                /\ absent # {} =>
                      /\ ~out.ok
                      /\ out.error = MissingColumnsError
                      /\ Elems(out.missing) = absent
                /\ (absent = {} /\ src.rows = <<>>) =>
                      ~out.ok /\ out.error = EmptyError
                /\ (absent = {} /\ src.rows # <<>>) =>
                      /\ out.ok
                      /\ Len(out.docs) = Len(src.rows)
                      /\ \A n \in DOMAIN src.rows :
                            /\ out.docs[n].page_content =
                                   CellText(src.rows[n]["review"], "")
                            /\ out.docs[n].metadata.product_name =
                                   CellText(src.rows[n]["product_title"], "Unknown")
    /\ \A j, k \in DOMAIN runs : runs[j].src = runs[k].src => runs[j].out = runs[k].out

C9_Witness ==
    /\ Len(runs) = 2
    /\ runs[1].src = runs[2].src
    /\ runs[2].out.ok
    /\ Len(runs[2].out.docs) = 2
    /\ runs[2].src.rows[1]["review"] = NaN
    /\ runs[2].src.rows[2]["product_title"] = NaN
    /\ runs[2].out.docs[1].page_content = ""
    /\ runs[2].out.docs[2].metadata.product_name = "Unknown"

(* What the claims say of a posted msg, read off the runs themselves. *)
TextRuns(msg) == {k \in DOMAIN msg : msg[k].ch # " "}

Blank(msg) == TextRuns(msg) = {}

RECURSIVE RunSum(_, _, _)
RunSum(msg, lo, hi) == IF lo > hi THEN 0 ELSE msg[lo].n + RunSum(msg, lo + 1, hi)

RawLen(msg) == RunSum(msg, 1, Len(msg))

TrimmedLen(msg) ==
    IF Blank(msg) THEN 0
    ELSE RunSum(msg, CHOOSE k \in TextRuns(msg) : \A m \in TextRuns(msg) : k <= m,
                     CHOOSE k \in TextRuns(msg) : \A m \in TextRuns(msg) : k >= m)

Answered(t) == req[t].pc = "done" /\ req[t].path = "/chat"

(* C3: a POST /chat whose msg is absent, or present but empty after        *)
(* trimming, is answered 400 in the validation step; the chat error        *)
(* counter goes up by one under missing_input in the first case and under  *)
(* empty_input in the second, and the absent case has the body             *)
(* {error: "Missing required field: msg", status: "error"}.                *)
C3_MissingOrEmptyRejected ==
    [][\A t \in Threads :
          (req[t].pc = "dispatch" /\ req[t].path = "/chat" /\ req'[t] # req[t]) =>
              LET f == req[t].form
              IN  /\ ~f.has =>
                        /\ req'[t].pc = "done"
                        /\ req'[t].resp.code = 400
                        /\ req'[t].resp.body =
                               [error |-> "Missing required field: msg",
                                status |-> "error"]
                        /\ CHAT_ERROR_COUNT' =
                               [CHAT_ERROR_COUNT EXCEPT !["missing_input"] = @ + 1]
                  /\ (f.has /\ TrimmedLen(f.msg) = 0) =>
                        /\ req'[t].pc = "done"
                        /\ req'[t].resp.code = 400
                        /\ req'[t].resp.body.status = "error"
                        /\ CHAT_ERROR_COUNT' =
                               [CHAT_ERROR_COUNT EXCEPT !["empty_input"] = @ + 1]]_vars

C3_Witness ==
    \E t \in Threads :
        /\ Answered(t)
        /\ req[t].form.has
        /\ RawLen(req[t].form.msg) = MaxInputLen + 1
        /\ Blank(req[t].form.msg)
        /\ req[t].resp.code = 400
        /\ CHAT_ERROR_COUNT["empty_input"] = 1
        /\ CHAT_ERROR_COUNT["missing_input"] = 1

(* C4 as claimed: an input of 1001 characters is rejected with 400 and the *)
(* input_too_long category; an input of exactly 1000 characters is not     *)
(* rejected as too long.                                                    *)
C4_RawLengthBoundary ==
    \A t \in Threads :
        (Answered(t) /\ req[t].form.has) =>
            /\ RawLen(req[t].form.msg) = 1001 =>
                  req[t].resp.code = 400 /\ req[t].resp.error_type = "input_too_long"
            /\ RawLen(req[t].form.msg) = 1000 =>
                  req[t].resp.error_type # "input_too_long"

(* C4 as amended: the length that counts is the one left after trimming    *)
(* surrounding whitespace. Trimmed length 1001 is rejected with 400 and    *)
(* input_too_long; trimmed length exactly 1000, and any input of at most   *)
(* 1000 characters, is not rejected as too long.                           *)
C4_TrimmedLengthBoundary ==
    \A t \in Threads :
        (Answered(t) /\ req[t].form.has) =>
            /\ TrimmedLen(req[t].form.msg) = 1001 =>
                  /\ req[t].resp.code = 400
                  /\ req[t].resp.error_type = "input_too_long"
                  /\ req[t].resp.body =
                         [error |-> "Input too long. Maximum 1000 characters allowed.",
                          status |-> "error"]
            /\ (TrimmedLen(req[t].form.msg) = 1000 \/ RawLen(req[t].form.msg) <= 1000) =>
                  req[t].resp.error_type # "input_too_long"

C4_Witness ==
    \E t \in Threads :
        /\ Answered(t)
        /\ RawLen(req[t].form.msg) = 1001
        /\ TrimmedLen(req[t].form.msg) = 1000
        /\ req[t].resp.code = 200
        /\ \E k \in DOMAIN completed :
              completed[k].code = 400 /\ completed[k].rid # req[t].rid
        /\ CHAT_ERROR_COUNT["input_too_long"] = 1

(* C5: a valid input (present, not blank, at most 1000 characters) whose   *)
(* provider calls all succeed is answered 200 with {answer, status:        *)
(* "success"}, the answer being a string, also when the vector search      *)
(* returned no document; a chain result without an answer gives the fixed  *)
(* fallback string.                                                        *)
Texts == Answers \cup {Fallback}

ResultShapes == {[input |-> Q1], [input |-> Q1, answer |-> Lit("answer")]}

C5_ValidInputAnswered ==
    /\ \A t \in Threads :
          (/\ Answered(t)
           /\ req[t].form.has
           /\ ~Blank(req[t].form.msg)
           /\ RawLen(req[t].form.msg) <= 1000
           /\ req[t].exc = NoExc) =>
              /\ req[t].resp.code = 200
              /\ DOMAIN req[t].resp.body = {"answer", "status"}
              /\ req[t].resp.body.status = "success"
              /\ req[t].resp.body.answer \in Texts
    /\ \A r \in ResultShapes :
          /\ ExtractAnswer(r) \in Texts
          /\ "answer" \notin DOMAIN r =>
                ExtractAnswer(r) = Lit("I'm sorry, I couldn't generate a response.")

C5_Witness ==
    \E t \in Threads :
        /\ Answered(t)
        /\ RawLen(req[t].form.msg) = 1000
        /\ req[t].context = <<>>
        /\ req[t].resp.code = 200
        /\ req[t].resp.body.answer = Lit("answer")

(* C6 as claimed: whatever a provider raises, at rewrite, retrieval or     *)
(* generation, the response is 500 with the message "An internal error    *)
(* occurred..." and status "error".                                        *)
C6_AlwaysInternalMessage ==
    \A t \in Threads :
        (Answered(t) /\ req[t].exc # NoExc) =>
            /\ req[t].resp.code = 500
            /\ req[t].resp.body =
                   [error |-> "An internal error occurred. Please try again later.",
                    status |-> "error"]

ReceiveAgain(t) ==
    \E cookie \in SessionIds \cup {0}, path \in Paths, form \in Forms :
        Receive(t, cookie, path, form)

(* C6 as amended: a provider failure is answered 500 with status "error"  *)
(* and a fixed message, "Error processing request: missing data" for a    *)
(* KeyError and "An internal error occurred. Please try again later."     *)
(* for any other exception; the exception's own text never reaches the    *)
(* body, and the worker can take the next request.                        *)
C6_ProviderFailureOpaque ==
    \A t \in Threads :
        (Answered(t) /\ req[t].exc # NoExc) =>
            /\ req[t].resp.code = 500
            /\ DOMAIN req[t].resp.body = {"error", "status"}
            /\ req[t].resp.body.status = "error"
            /\ req[t].resp.body.error =
                   IF req[t].exc.type = "KeyError"
                   THEN "Error processing request: missing data"
                   ELSE "An internal error occurred. Please try again later."
            /\ req[t].resp.body.error # req[t].exc.detail
            /\ boot = "serving"
            /\ ENABLED ReceiveAgain(t)

C6_Witness ==
    \E t \in Threads :
        /\ Answered(t)
        /\ req[t].exc.type = "KeyError"
        /\ req[t].resp.code = 500
        /\ req[t].rid = 2
        /\ completed[1].code = 500

(* C7: every response of /chat and of an unmatched path is a JSON object  *)
(* with status "success" and an answer, or status "error" and an error,   *)
(* never both; status is "success" exactly when the code is 200; an       *)
(* unmatched path gets 404 {error: "Endpoint not found", status: "error"}.*)
C7_ResponseShape ==
    \A t \in Threads :
        req[t].pc = "done" =>
            LET resp == req[t].resp
            IN  /\ resp.code \in {200, 400, 404, 500}
                /\ \/ /\ DOMAIN resp.body = {"answer", "status"}
                      /\ resp.body.status = "success"
                   \/ /\ DOMAIN resp.body = {"error", "status"}
                      /\ resp.body.status = "error"
                /\ resp.body.status = "success" <=> resp.code = 200
                /\ req[t].path # "/chat" =>
                      /\ resp.code = 404
                      /\ resp.body = [error |-> "Endpoint not found", status |-> "error"]

C7_Witness ==
    \E t \in Threads :
        /\ req[t].pc = "done"
        /\ req[t].path # "/chat"
        /\ req[t].resp.code = 404
        /\ \E k \in DOMAIN completed : completed[k].code = 200

(* C2: session isolation. Every turn in a session's history was put there *)
(* by a request of that session, and a step of a request made with        *)
(* session id A changes neither the history entry nor the turns of any    *)
(* other session B, whatever the interleaving.                            *)
C2_SessionIsolation ==
    /\ [](\A s \in SessionIds : \A k \in DOMAIN TurnsOf(s) :
             owner[TurnsOf(s)[k].rid] = s)
    /\ [][\A t \in Threads : \A b \in SessionIds :
             (req'[t] # req[t] /\ req'[t].sid # b) =>
                 /\ history_store'[b] = history_store[b]
                 /\ TurnsOf(b)' = TurnsOf(b)]_vars

C2_Witness ==
    \E t, u \in Threads :
        /\ req[t].sid # req[u].sid
        /\ req[t].pc = "respond"
        /\ req[u].pc = "append_ai"
        /\ Len(TurnsOf(req[t].sid)) = 4
        /\ Len(TurnsOf(req[u].sid)) = 1

(* C1: history growth. Once no request of a session is in flight, the     *)
(* session's history is exactly the pairs (user, question), (assistant,   *)
(* answer) of its successful calls, in the order the calls completed: 2N  *)
(* turns after N successful calls, whatever failed calls and calls of     *)
(* other sessions came in between.                                        *)
Quiet(s) == \A t \in Threads : req[t].sid = s => req[t].pc \in {"idle", "done"}

RECURSIVE ExpectedTurns(_, _)
ExpectedTurns(log, s) ==
    IF log = <<>> THEN <<>>
    ELSE (IF Head(log).sid = s /\ Head(log).code = 200
          THEN <<Turn("human", Head(log).q, Head(log).rid),
                 Turn("ai", Head(log).answer, Head(log).rid)>>
          ELSE <<>>) \o ExpectedTurns(Tail(log), s)

Successes(s) == Cardinality({k \in DOMAIN completed :
                                completed[k].sid = s /\ completed[k].code = 200})

C1_HistoryGrowth ==
    \A s \in SessionIds :
        Quiet(s) =>
            /\ Len(TurnsOf(s)) = 2 * Successes(s)
            /\ TurnsOf(s) = ExpectedTurns(completed, s)

(* C10: a request that ended in failure (400 or 500) has not changed the  *)
(* turns of any session's history at any of its steps.                    *)
C10_FailedLeavesHistory ==
    \A t \in Threads :
        (req[t].pc = "done" /\ req[t].resp.code \in {400, 500}) => ~req[t].wrote

(* C11: ordering under concurrency. With requests of one session in       *)
(* flight at once, the turns of the session's history stand in the order  *)
(* in which the requests completed, and the (user, assistant) pair of one *)
(* request is never split by a turn of another request. Stated for the    *)
(* runs in which no stored history was ever replaced, so that only the    *)
(* appends decide it.                                                     *)
NeverReplaced ==
    \A o \in DOMAIN heap : \E s \in SessionIds : history_store[s] = o

PairsWhole(h) ==
    /\ \A k \in DOMAIN h :
           h[k].role = "ai" =>
               k > 1 /\ h[k - 1].role = "human" /\ h[k - 1].rid = h[k].rid
    /\ \A k \in DOMAIN h :
           (h[k].role = "human" /\ k < Len(h)) => h[k + 1].rid = h[k].rid

InCompletionOrder(h, s) ==
    \A i, j \in DOMAIN completed :
        (i < j /\ completed[i].sid = s /\ completed[j].sid = s) =>
            \A a, b \in DOMAIN h :
                (h[a].rid = completed[i].rid /\ h[b].rid = completed[j].rid)
                    => a < b

C11_OrderedWholePairs ==
    NeverReplaced =>
        \A s \in SessionIds :
            PairsWhole(TurnsOf(s)) /\ InCompletionOrder(TurnsOf(s), s)

(* C12: get-or-create is stable per session id. A history stored for a    *)
(* session id is never replaced by a fresh one, every request in flight   *)
(* holds the history the store has for its session, and every turn that   *)
(* was appended is still in the stored history of its session.            *)
C12_GetOrCreateStable ==
    /\ NeverReplaced
    /\ \A t \in Threads :
           req[t].hist # 0 => req[t].hist = history_store[req[t].sid]
    /\ \A o \in DOMAIN heap : \A k \in DOMAIN heap[o] :
           \E m \in DOMAIN TurnsOf(owner[heap[o][k].rid]) :
               TurnsOf(owner[heap[o][k].rid])[m] = heap[o][k]

(* C13: request accounting. Once every request received has been          *)
(* answered, the /chat request counter of each status label equals the    *)
(* number of /chat responses with that status code, the chat error        *)
(* counters together equal the number of error responses of /chat, and    *)
(* the /chat request counters together equal the number of /chat          *)
(* requests handled.                                                      *)
AllAnswered == \A t \in Threads : req[t].pc \in {"idle", "done"}

Handled(code) ==
    Cardinality({k \in DOMAIN completed : completed[k].code = code})

RECURSIVE Total(_, _)
Total(counter, labels) ==
    IF labels = {} THEN 0
    ELSE LET l == CHOOSE x \in labels : TRUE
         IN  counter[l] + Total(counter, labels \ {l})

ChatRequestsExactlyOnce ==
    /\ REQUEST_COUNT["200"] = Handled(200)
    /\ REQUEST_COUNT["400"] = Handled(400)
    /\ REQUEST_COUNT["500"] = Handled(500)
    /\ Total(REQUEST_COUNT, {"200", "400", "500"})
           = Handled(200) + Handled(400) + Handled(500)

ChatErrorsExactlyOnce ==
    Total(CHAT_ERROR_COUNT, DOMAIN CHAT_ERROR_COUNT) = Handled(400) + Handled(500)

C13_RequestAccounting ==
    AllAnswered => ChatRequestsExactlyOnce /\ ChatErrorsExactlyOnce

====
